---- MODULE Spec2Model ----
(***************************************************************************)
(* A model of src/src/union.ts: the Union class, a stack of filesystem     *)
(* backends behind one fs-like surface.                                    *)
(*                                                                         *)
(* Indices are kept zero-based as in the source (i, j); the registry is a  *)
(* TLA+ sequence, so the entry at source index j is fss[j + 1].            *)
(*                                                                         *)
(* A behaviour registers backends and then follows one logical call to its *)
(* end: the calls share no state but the registry, which no call changes,  *)
(* so every pair (registry, call) is reached.  The stream calls are the    *)
(* exception: they also write ReadStream and WriteStream, and SpecStream   *)
(* lets them follow one another.  Every failed attempt produces a new      *)
(* Error object (as Node's fs and the stubs of createFS do); error objects *)
(* live in the heap `errs` and are named by their index.                   *)
(***************************************************************************)
EXTENDS Integers, Sequences, FiniteSets, TLC

\* Largest registry explored.
MaxFss == 3

\* The null reference (IUnionFsError.prev is `IUnionFsError | null`).
Null == 0
\* An absent property / an undefined value.
Undef == 0 - 1

VARIABLES
  fss,        \* Union.fss: the registered entries, in registration order
  pc,         \* "idle" | "pending" (a backend holds the continuation) | "done"
  call,       \* the arguments of the call in flight (or of the last call)
  i,          \* the loop index / iterate's parameter i
  lastError,  \* the local lastError
  errs,       \* heap of Error objects created during the call
  log,        \* the adapter calls made by the dispatcher, in order
  delivered,  \* what the caller has received so far (return, throw, callback, settle)
  result,     \* readdir's local Map `result`, as <<key, value>> pairs in insertion order
  error,      \* readdir: the parameter `error` of the iterate round whose callback is pending
  ReadStream, \* Union.ReadStream: the constructor the union exposes for read streams
  WriteStream,\* Union.WriteStream: likewise for write streams
  calls       \* the calls received by the watchers of the backends, in order

vars == <<fss, pc, call, i, lastError, errs, log, delivered, result, error,
          ReadStream, WriteStream, calls>>

\* What a backend does when its implementation of the operation is reached:
\* succeed, fail through the asynchronous channel (callback error, rejected
\* promise), throw synchronously, or not implement the operation at all.
Behaviours == {"ok", "fail", "throw", "missing"}

Directions == {"read", "write"}

NoCall == [op |-> "none", form |-> "none", dir |-> "none", flags |-> <<>>, cb |-> FALSE,
           withFileTypes |-> FALSE]

GenericCall(form, d, cb) ==
  [NoCall EXCEPT !.op = "generic", !.form = form, !.dir = d, !.cb = cb]

\* The locals of one call, gathered so that a loop can be written as a function.
Locals == [i |-> i, lastError |-> lastError, errs |-> errs, log |-> log,
           delivered |-> delivered, result |-> result, error |-> error, pc |-> pc]

FreshLocals == [i |-> 0, lastError |-> Null, errs |-> <<>>, log |-> <<>>,
                delivered |-> <<>>, result |-> <<>>, error |-> Undef, pc |-> "idle"]

SetLocals(s) ==
  /\ i' = s.i
  /\ lastError' = s.lastError
  /\ errs' = s.errs
  /\ log' = s.log
  /\ delivered' = s.delivered
  /\ result' = s.result
  /\ error' = s.error
  /\ pc' = s.pc

----------------------------------------------------------------------------
\* Error objects and the prev chain

\* new Error(...): a fresh object whose prev property is absent.
NewErr(s, kind, by) ==
  [s EXCEPT !.errs = Append(s.errs, [kind |-> kind, by |-> by, prev |-> Undef])]

\* A slip: lastError moves on but the error is never linked to the one before.
ChainErrNoLink(s, e) == [s EXCEPT !.lastError = e]

\* err.prev = lastError; lastError = err;
ChainErr(s, e) ==
  [s EXCEPT !.errs = [s.errs EXCEPT ![e].prev = s.lastError], !.lastError = e]

\* A failed attempt: the error object comes into being and is chained.
Caught(s, kind, by) == ChainErr(NewErr(s, kind, by), Len(s.errs) + 1)

\* The record handed to the caller.
Deliver(s, how, val, err) ==
  [s EXCEPT !.delivered = Append(s.delivered, [how |-> how, val |-> val, err |-> err]),
            !.pc = "done"]

\* The dispatcher called the adapter of entry j (zero-based) and got `res`.
Logged(s, j, res, invoked, threw) ==
  [s EXCEPT !.log = Append(s.log, [fs |-> j, res |-> res, invoked |-> invoked,
                                   threw |-> threw])]

\* The outcome of the pending adapter call becomes known.
Settled(s, res) == [s EXCEPT !.log = [s.log EXCEPT ![Len(s.log)].res = res]]

----------------------------------------------------------------------------
\* use() and createFS

Entry(id, r, w) == [fs |-> id, readable |-> r, writable |-> w]

\* A slip: the new entry is put in front of the others (unshift for push).
UsePrepend(r, w) ==
  /\ pc = "idle"
  /\ Len(fss) < MaxFss
  /\ fss' = <<Entry(Len(fss) + 1, r, w)>> \o fss
  /\ UNCHANGED <<pc, call, i, lastError, errs, log, delivered, result, error,
                 ReadStream, WriteStream, calls>>

\* use(fs, options): push [createFS(fs, options), options].  An option left
\* out is TRUE here (createFS defaults it to true and `=== false` is false).
Use(r, w) ==
  /\ pc = "idle"
  /\ Len(fss) < MaxFss
  /\ fss' = Append(fss, Entry(Len(fss) + 1, r, w))
  /\ UNCHANGED <<pc, call, i, lastError, errs, log, delivered, result, error,
                 ReadStream, WriteStream, calls>>

Allowed(e, d) == IF d = "read" THEN e.readable ELSE e.writable

\* What the backend's own implementation yields once it is reached.
Delegate(b) == IF b = "ok" THEN "ok" ELSE "backend"

\* createFS, blocking and callback tables: the flag is looked at first, then
\* createFunc substitutes a throwing stub for a method the backend lacks.
Adapter(e, d, b) ==
  IF ~Allowed(e, d) THEN "denied"
  ELSE IF b = "missing" THEN "unsupported"
  ELSE Delegate(b)

\* createFS, promises table: a missing method is looked at first, then the flag.
PromiseAdapter(e, d, b) ==
  IF b = "missing" THEN "unsupported"
  ELSE IF ~Allowed(e, d) THEN "denied"
  ELSE Delegate(b)

\* Whether the backend's own implementation ran.
Invoked(e, d, b) == Allowed(e, d) /\ b # "missing"

\* A stub throws where it is called; so does a backend that throws.
ThrowsSync(res, b) == res \in {"denied", "unsupported"} \/ b = "throw"

----------------------------------------------------------------------------
\* syncMethod (blocking form).  After createFS every generic method exists on
\* the adapter, so the `!fs[method]` test of the loop is never true.  The
\* loops below yield the set of ways the call can go on, one for each
\* behaviour of the backends they reach.

\* A blocking implementation has no asynchronous channel: it returns or throws.
SyncBehaviours == Behaviours \ {"fail"}

\* if (!i) throw err: the entry that ends the loop.
IsLastOne(k) == k = 0

RECURSIVE SyncLoop(_, _, _)
SyncLoop(f, d, s) ==
  IF s.i < 0 THEN {Deliver(s, "return", Undef, Null)}
  ELSE
    LET e == f[s.i + 1]
    IN UNION {
         LET res == Adapter(e, d, b)
             s1 == Logged(s, s.i, res, Invoked(e, d, b), res # "ok")
             s2 == Caught(s1, res, s.i)
         IN IF res = "ok" THEN {Deliver(s1, "return", e.fs, Null)}
            ELSE IF IsLastOne(s.i) THEN {Deliver(s2, "throw", Undef, s2.lastError)}
            ELSE SyncLoop(f, d, [s2 EXCEPT !.i = s.i - 1])
         : b \in SyncBehaviours }

SyncMethod(f, d) ==
  IF Len(f) = 0
    THEN LET s1 == NewErr(FreshLocals, "nofs", Undef)
         IN {Deliver(s1, "throw", Undef, Len(s1.errs))}
    ELSE SyncLoop(f, d, [FreshLocals EXCEPT !.i = Len(f) - 1])

SyncMethodCall(d) ==
  /\ pc = "idle"
  /\ \E s \in SyncMethod(fss, d) : SetLocals(s)
  /\ call' = GenericCall("sync", d, FALSE)
  /\ UNCHANGED <<fss, ReadStream, WriteStream, calls>>

----------------------------------------------------------------------------
\* asyncMethod (callback form).  iterate runs on, through every backend that
\* throws where it is called, until a backend has taken the intermediate
\* callback and returned, or until the caller's callback has been called.

\* The index iterate hands to its next round.
NextI(k) == k + 1

\* A slip: iterate walks the registry in registration order.
BackendOfAscending(f, k) == k

\* The backend iterate(i) turns to: j = fss.length - i - 1.
BackendOf(f, k) == Len(f) - k - 1

\* if (cb) cb(err ?? (!this.fss.length ? new Error('No file systems attached.') : undefined))
LastOne(f, c, s, err) ==
  IF ~c.cb THEN [s EXCEPT !.pc = "done"]
  ELSE IF err # Undef THEN Deliver(s, "cb", Undef, err)
  ELSE IF Len(f) = 0
    THEN LET s1 == NewErr(s, "nofs", Undef) IN Deliver(s1, "cb", Undef, Len(s1.errs))
  ELSE Deliver(s, "cb", Undef, Undef)

\* if (err) return iterate(i + 1, err); if (cb) cb.apply(cb, arguments);
\* the success branch of the intermediate callback.
PassOn(c, s, val) ==
  IF c.cb THEN Deliver(s, "cb", val, Null) ELSE [s EXCEPT !.pc = "done"]

RECURSIVE AsyncIterate(_, _, _, _)
AsyncIterate(f, c, s, err) ==
  LET s0 == IF err # Undef THEN ChainErr(s, err) ELSE s
  IN IF s0.i >= Len(f) THEN {LastOne(f, c, s0, err)}
     ELSE
       LET j == BackendOf(f, s0.i)
           e == f[j + 1]
       IN UNION {
            LET res == Adapter(e, c.dir, b)
                s1 == NewErr(Logged(s0, j, res, Invoked(e, c.dir, b), TRUE), res, j)
            IN IF ThrowsSync(res, b)
                 THEN AsyncIterate(f, c, [s1 EXCEPT !.i = NextI(s0.i)], Len(s1.errs))
                 ELSE {[Logged(s0, j, "pending", TRUE, FALSE) EXCEPT !.pc = "pending"]}
            : b \in Behaviours }

AsyncMethodCall(d, cb) ==
  /\ pc = "idle"
  /\ call' = GenericCall("callback", d, cb)
  /\ \E s \in AsyncIterate(fss, call', FreshLocals, Undef) : SetLocals(s)
  /\ UNCHANGED <<fss, ReadStream, WriteStream, calls>>

\* The backend calls the intermediate callback, with an error or with a result.
AsyncCallback(o) ==
  /\ pc = "pending"
  /\ call.op = "generic" /\ call.form = "callback"
  /\ LET j == BackendOf(fss, i)
         s1 == NewErr(Settled(Locals, "backend"), "backend", j)
     IN IF o = "fail"
          THEN \E s \in AsyncIterate(fss, call, [s1 EXCEPT !.i = NextI(i)], Len(s1.errs)) :
                 SetLocals(s)
          ELSE SetLocals(PassOn(call, Settled(Locals, "ok"), fss[j + 1].fs))
  /\ UNCHANGED <<fss, call, ReadStream, WriteStream, calls>>

----------------------------------------------------------------------------
\* promiseMethod (promise form).  The async function runs to its first await
\* that has a promise to wait for; a stub, or a backend, that throws where it
\* is called lands in the same catch as a rejection.  After createFS
\* `promises[method]` always exists, so the test of the loop is never true.

RECURSIVE PromiseLoop(_, _, _)
RECURSIVE PromiseCatch(_, _, _, _)

PromiseCatch(f, d, s, kind) ==
  LET s2 == Caught(s, kind, s.i)
  IN IF IsLastOne(s.i) THEN {Deliver(s2, "reject", Undef, s2.lastError)}
     ELSE PromiseLoop(f, d, [s2 EXCEPT !.i = s.i - 1])

PromiseLoop(f, d, s) ==
  IF s.i < 0 THEN {Deliver(s, "resolve", Undef, Null)}
  ELSE
    LET e == f[s.i + 1]
    IN UNION {
         LET res == PromiseAdapter(e, d, b)
         IN IF ThrowsSync(res, b)
              THEN PromiseCatch(f, d, Logged(s, s.i, res, Invoked(e, d, b), TRUE), res)
              ELSE {[Logged(s, s.i, "pending", TRUE, FALSE) EXCEPT !.pc = "pending"]}
         : b \in Behaviours }

PromiseMethod(f, d) == PromiseLoop(f, d, [FreshLocals EXCEPT !.i = Len(f) - 1])

PromiseMethodCall(d) ==
  /\ pc = "idle"
  /\ \E s \in PromiseMethod(fss, d) : SetLocals(s)
  /\ call' = GenericCall("promise", d, FALSE)
  /\ UNCHANGED <<fss, ReadStream, WriteStream, calls>>

\* The awaited promise settles.
PromiseSettle(o) ==
  /\ pc = "pending"
  /\ call.op = "generic" /\ call.form = "promise"
  /\ IF o = "fail"
       THEN \E s \in PromiseCatch(fss, call.dir, Settled(Locals, "backend"), "backend") :
              SetLocals(s)
       ELSE SetLocals(Deliver(Settled(Locals, "ok"), "resolve", fss[i + 1].fs, Null))
  /\ UNCHANGED <<fss, call, ReadStream, WriteStream, calls>>

----------------------------------------------------------------------------
\* open and openSync.  An access mode is a string, here the sequence of its
\* characters.  What the adapter's open is (the backend's own, or a stub of
\* createFS) is left to the behaviours: it succeeds, fails, throws or is absent.

Modes == {<<"r">>, <<"r", "+">>, <<"w">>, <<"a">>}

\* flags.startsWith(c)
StartsWith(flags, c) == Len(flags) >= 1 /\ flags[1] = c

\* A slip: the append mode is checked against the writable flag alone.
SkippedAppendWritableOnly(e, flags) ==
  \/ StartsWith(flags, "r") /\ e.readable = FALSE
  \/ StartsWith(flags, "w") /\ e.writable = FALSE
  \/ StartsWith(flags, "a") /\ e.writable = FALSE

\* if (flags.startsWith('r') && readable === false) ...
\* if (flags.startsWith('w') && writable === false) ...
\* if (flags.startsWith('a') && (writable === false || readable === false)) ...
Skipped(e, flags) ==
  \/ StartsWith(flags, "r") /\ e.readable = FALSE
  \/ StartsWith(flags, "w") /\ e.writable = FALSE
  \/ StartsWith(flags, "a") /\ (e.writable = FALSE \/ e.readable = FALSE)

\* open: flags = args.length < 3 ? 'r' : args[1]
OpenFlags(given, flags) == IF given THEN flags ELSE <<"r">>

OpenCall(form, flags, cb) ==
  [NoCall EXCEPT !.op = "open", !.form = form, !.flags = flags, !.cb = cb]

\* if (cb) cb(err ?? (!this.fss.length ? new Error('No file systems attached.') : undefined))
OpenLastOne(f, c, s, err) ==
  IF ~c.cb THEN [s EXCEPT !.pc = "done"]
  ELSE IF err # Undef THEN Deliver(s, "cb", Undef, err)
  ELSE IF Len(f) = 0
    THEN LET s1 == NewErr(s, "nofs", Undef) IN Deliver(s1, "cb", Undef, Len(s1.errs))
  ELSE Deliver(s, "cb", Undef, Undef)

RECURSIVE OpenIterate(_, _, _, _)
OpenIterate(f, c, s, err) ==
  LET s0 == IF err # Undef THEN ChainErr(s, err) ELSE s
  IN IF s0.i >= Len(f) THEN {OpenLastOne(f, c, s0, err)}
     ELSE
       LET j == Len(f) - s0.i - 1
           e == f[j + 1]
       IN IF Skipped(e, c.flags)
            THEN OpenIterate(f, c, [s0 EXCEPT !.i = s0.i + 1], Undef)
            ELSE UNION {
              LET res == IF b = "missing" THEN "unsupported" ELSE "backend"
                  s1 == NewErr(Logged(s0, j, res, b # "missing", b = "throw"), res, j)
              IN IF b \in {"missing", "throw"}
                   THEN OpenIterate(f, c, [s1 EXCEPT !.i = s0.i + 1], Len(s1.errs))
                   ELSE {[Logged(s0, j, "pending", TRUE, FALSE) EXCEPT !.pc = "pending"]}
              : b \in Behaviours }

Open(given, flags, cb) ==
  /\ pc = "idle"
  /\ call' = OpenCall("callback", OpenFlags(given, flags), cb)
  /\ \E s \in OpenIterate(fss, call', FreshLocals, Undef) : SetLocals(s)
  /\ UNCHANGED <<fss, ReadStream, WriteStream, calls>>

\* The backend calls the intermediate callback of open:
\*   function (err) { if (err) return iterate(i + 1, err); if (cb) cb.apply(cb, arguments); }
OpenCallback(o) ==
  /\ pc = "pending"
  /\ call.op = "open" /\ call.form = "callback"
  /\ LET j == Len(fss) - i - 1
         s1 == NewErr(Settled(Locals, "backend"), "backend", j)
     IN IF o = "fail"
          THEN \E s \in OpenIterate(fss, call, [s1 EXCEPT !.i = i + 1], Len(s1.errs)) :
                 SetLocals(s)
          ELSE SetLocals(PassOn(call, Settled(Locals, "ok"), fss[j + 1].fs))
  /\ UNCHANGED <<fss, call, ReadStream, WriteStream, calls>>

RECURSIVE OpenSyncLoop(_, _, _)
OpenSyncLoop(f, flags, s) ==
  IF s.i < 0 THEN {Deliver(s, "return", Undef, Null)}
  ELSE
    LET e == f[s.i + 1]
    IN IF Skipped(e, flags) THEN OpenSyncLoop(f, flags, [s EXCEPT !.i = s.i - 1])
       ELSE UNION {
         LET res == IF b = "missing" THEN "unsupported" ELSE Delegate(b)
             s1 == Logged(s, s.i, res, b # "missing", res # "ok")
             s2 == Caught(s1, res, s.i)
         IN IF res = "ok" THEN {Deliver(s1, "return", e.fs, Null)}
            ELSE IF s.i = 0 THEN {Deliver(s2, "throw", Undef, s2.lastError)}
            ELSE OpenSyncLoop(f, flags, [s2 EXCEPT !.i = s.i - 1])
         : b \in SyncBehaviours }

OpenSync(flags) ==
  /\ pc = "idle"
  /\ \E s \in OpenSyncLoop(fss, flags, [FreshLocals EXCEPT !.i = Len(fss) - 1]) :
       SetLocals(s)
  /\ call' = OpenCall("sync", flags, FALSE)
  /\ UNCHANGED <<fss, ReadStream, WriteStream, calls>>

----------------------------------------------------------------------------
\* readdir, readdirSync and the promise readdir.  A name is a string, here the
\* sequence of its character codes; an entry is a string or a Dirent (with
\* withFileTypes), and a Dirent is an object of the backend that made it.

NameA == <<1>>
NameAB == <<1, 2>>
NameB == <<2>>

\* The arrays a backend may report.
Listings == {<<>>, <<NameAB, NameA>>, <<NameB, NameAB>>, <<NameB>>}

ReaddirBehaviours ==
  [b : {"ok"}, list : Listings] \cup [b : {"fail", "throw", "missing"}, list : {<<>>}]

ReaddirCall(form, wft, cb) ==
  [NoCall EXCEPT !.op = "readdir", !.form = form, !.withFileTypes = wft, !.cb = cb]

\* The entry backend j reports for a name.
ReaddirEntry(n, j, wft) ==
  IF wft THEN [kind |-> "dirent", name |-> n, owner |-> j]
  ELSE [kind |-> "string", name |-> n, owner |-> Undef]

\* pathFromReaddirEntry
PathFromReaddirEntry(x) == x.name

MapHas(m, key) == \E k \in 1..Len(m) : m[k][1] = key

MapGet(m, key) == m[CHOOSE k \in 1..Len(m) : m[k][1] = key][2]

\* A slip: a name already in the map keeps the entry it has.
MapSetKeepFirst(m, key, val) ==
  IF MapHas(m, key) THEN m ELSE Append(m, <<key, val>>)

\* Map.prototype.set: a key already there keeps its place and takes the new value.
MapSet(m, key, val) ==
  IF MapHas(m, key)
    THEN [k \in 1..Len(m) |-> IF m[k][1] = key THEN <<key, val>> ELSE m[k]]
    ELSE Append(m, <<key, val>>)

\* for (const res of list) result.set(this.pathFromReaddirEntry(res), res)
RECURSIVE Merge(_, _, _, _)
Merge(m, list, j, wft) ==
  IF list = <<>> THEN m
  ELSE LET res == ReaddirEntry(Head(list), j, wft)
       IN Merge(MapSet(m, PathFromReaddirEntry(res), res), Tail(list), j, wft)

\* The order of Array.prototype.sort() without a comparator: by code units.
RECURSIVE StrLess(_, _)
StrLess(a, b) ==
  IF b = <<>> THEN FALSE
  ELSE IF a = <<>> THEN TRUE
  ELSE IF a[1] # b[1] THEN a[1] < b[1]
  ELSE StrLess(Tail(a), Tail(b))

RECURSIVE Insert(_, _)
Insert(key, sorted) ==
  IF sorted = <<>> THEN <<key>>
  ELSE IF StrLess(key, Head(sorted)) THEN <<key>> \o sorted
  ELSE <<Head(sorted)>> \o Insert(key, Tail(sorted))

\* A slip: the keys are left in insertion order.
SortNot(keys) == keys

RECURSIVE Sort(_)
Sort(keys) == IF keys = <<>> THEN <<>> ELSE Insert(Head(keys), Sort(Tail(keys)))

\* sortedArrayFromReaddirResult
SortedArrayFromReaddirResult(m) ==
  LET keys == Sort([k \in 1..Len(m) |-> m[k][1]])
  IN [k \in 1..Len(keys) |-> MapGet(m, keys[k])]

ReaddirLogged(s, j, res, list) ==
  [s EXCEPT !.log = Append(s.log, [fs |-> j, res |-> res, invoked |-> res # "unsupported",
                                   threw |-> res \notin {"ok", "pending"}, list |-> list])]

ReaddirSettled(s, res, list) ==
  [s EXCEPT !.log = [s.log EXCEPT ![Len(s.log)].res = res, ![Len(s.log)].list = list]]

\* readdirSync

RECURSIVE ReaddirSyncLoop(_, _, _)
ReaddirSyncLoop(f, c, s) ==
  IF s.i < 0
    THEN {Deliver(s, "return", SortedArrayFromReaddirResult(s.result), Null)}
  ELSE
    LET e == f[s.i + 1]
    IN IF e.readable = FALSE THEN ReaddirSyncLoop(f, c, [s EXCEPT !.i = s.i - 1])
       ELSE UNION {
         LET res == IF b.b = "missing" THEN "unsupported" ELSE Delegate(b.b)
             s1 == ReaddirLogged(s, s.i, res, b.list)
             s2 == Caught(s1, res, s.i)
         IN IF res = "ok"
              THEN ReaddirSyncLoop(f, c,
                     [s1 EXCEPT !.result = Merge(s.result, b.list, s.i, c.withFileTypes),
                                !.i = s.i - 1])
            ELSE IF Len(s.result) = 0 /\ s.i = 0
              THEN {Deliver(s2, "throw", Undef, s2.lastError)}
            ELSE ReaddirSyncLoop(f, c, [s2 EXCEPT !.i = s.i - 1])
         : b \in {x \in ReaddirBehaviours : x.b # "fail"} }

ReaddirSync(wft) ==
  /\ pc = "idle"
  /\ call' = ReaddirCall("sync", wft, FALSE)
  /\ \E s \in ReaddirSyncLoop(fss, call', [FreshLocals EXCEPT !.i = Len(fss) - 1]) :
       SetLocals(s)
  /\ UNCHANGED <<fss, ReadStream, WriteStream, calls>>

\* readdir (callback form).  func.apply is not inside a try: what a backend
\* throws where it is called leaves readdir as an exception.

\* if (cb) cb(error || Error('No file systems attached.'))
ReaddirLastOne(c, s, err) ==
  IF ~c.cb THEN [s EXCEPT !.pc = "done"]
  ELSE IF err \notin {Undef, Null} THEN Deliver(s, "cb", Undef, err)
  ELSE LET s1 == NewErr(s, "nofs", Undef) IN Deliver(s1, "cb", Undef, Len(s1.errs))

RECURSIVE ReaddirIterate(_, _, _, _)
ReaddirIterate(f, c, s, err) ==
  LET s0 == IF err \notin {Undef, Null} THEN ChainErr(s, err) ELSE s
  IN IF s0.i >= Len(f) THEN {ReaddirLastOne(c, s0, err)}
     ELSE
       LET j == Len(f) - s0.i - 1
           e == f[j + 1]
       IN UNION {
            IF b.b = "missing"
              THEN LET s1 == NewErr(ReaddirLogged(s0, j, "unsupported", <<>>), "unsupported", j)
                   IN ReaddirIterate(f, c, [s1 EXCEPT !.i = s0.i + 1], Len(s1.errs))
            ELSE IF e.readable = FALSE
              THEN LET s1 == NewErr(s0, "denied", j)
                   IN ReaddirIterate(f, c, [s1 EXCEPT !.i = s0.i + 1], Len(s1.errs))
            ELSE IF b.b = "throw"
              THEN LET s1 == NewErr(ReaddirLogged(s0, j, "backend", <<>>), "backend", j)
                   IN {Deliver(s1, "throw", Undef, Len(s1.errs))}
            ELSE {[ReaddirLogged(s0, j, "pending", <<>>) EXCEPT !.pc = "pending",
                                                                !.error = err]}
            : b \in ReaddirBehaviours }

Readdir(wft, cb) ==
  /\ pc = "idle"
  /\ call' = ReaddirCall("callback", wft, cb)
  /\ \E s \in ReaddirIterate(fss, call', FreshLocals, Undef) : SetLocals(s)
  /\ UNCHANGED <<fss, ReadStream, WriteStream, calls>>

\* The tail of the intermediate callback:
\*   if (i === this.fss.length - 1) return cb(null, sorted) else return iterate(i + 1, error)
\* cb is called unchecked: without a callback the call of null throws.
ReaddirGoOn(f, c, s) ==
  IF s.i = Len(f) - 1
    THEN IF c.cb THEN {Deliver(s, "cb", SortedArrayFromReaddirResult(s.result), Null)}
         ELSE LET s1 == NewErr(s, "typeerror", Undef)
              IN {Deliver(s1, "throw", Undef, Len(s1.errs))}
    ELSE ReaddirIterate(f, c, [s EXCEPT !.i = s.i + 1], s.error)

\* The backend calls the intermediate callback (err, resArg).
ReaddirCallback(b) ==
  /\ pc = "pending"
  /\ call.op = "readdir" /\ call.form = "callback"
  /\ b.b \in {"ok", "fail"}
  /\ LET j == Len(fss) - i - 1
         s1 == NewErr(ReaddirSettled(Locals, "backend", <<>>), "backend", j)
         s2 == ReaddirSettled(Locals, "ok", b.list)
     IN \E s \in (IF b.b = "fail" /\ Len(result) = 0
                    THEN ReaddirIterate(fss, call, [s1 EXCEPT !.i = i + 1], Len(s1.errs))
                  ELSE IF b.b = "fail"
                    THEN ReaddirGoOn(fss, call, ReaddirSettled(Locals, "backend", <<>>))
                  ELSE ReaddirGoOn(fss, call,
                         [s2 EXCEPT !.result = Merge(result, b.list, j, call.withFileTypes)])) :
          SetLocals(s)
  /\ UNCHANGED <<fss, call, ReadStream, WriteStream, calls>>

\* readdirPromise.  After createFS promises.readdir always exists (a stub
\* where the backend has none), so the `!fs.promises` test is never true.

RECURSIVE ReaddirPromiseLoop(_, _, _)
RECURSIVE ReaddirPromiseCatch(_, _, _, _)

ReaddirPromiseCatch(f, c, s, kind) ==
  LET s2 == Caught(s, kind, s.i)
  IN IF Len(s.result) = 0 /\ s.i = 0 THEN {Deliver(s2, "reject", Undef, s2.lastError)}
     ELSE ReaddirPromiseLoop(f, c, [s2 EXCEPT !.i = s.i - 1])

ReaddirPromiseLoop(f, c, s) ==
  IF s.i < 0
    THEN {Deliver(s, "resolve", SortedArrayFromReaddirResult(s.result), Null)}
  ELSE
    LET e == f[s.i + 1]
    IN IF e.readable = FALSE THEN ReaddirPromiseLoop(f, c, [s EXCEPT !.i = s.i - 1])
       ELSE UNION {
         IF b.b = "missing"
           THEN ReaddirPromiseCatch(f, c, ReaddirLogged(s, s.i, "unsupported", <<>>),
                                    "unsupported")
         ELSE IF b.b = "throw"
           THEN ReaddirPromiseCatch(f, c, ReaddirLogged(s, s.i, "backend", <<>>), "backend")
         ELSE {[ReaddirLogged(s, s.i, "pending", <<>>) EXCEPT !.pc = "pending"]}
         : b \in ReaddirBehaviours }

ReaddirPromise(wft) ==
  /\ pc = "idle"
  /\ call' = ReaddirCall("promise", wft, FALSE)
  /\ \E s \in ReaddirPromiseLoop(fss, call', [FreshLocals EXCEPT !.i = Len(fss) - 1]) :
       SetLocals(s)
  /\ UNCHANGED <<fss, ReadStream, WriteStream, calls>>

\* The awaited promise of the backend's readdir settles.
ReaddirPromiseSettle(b) ==
  /\ pc = "pending"
  /\ call.op = "readdir" /\ call.form = "promise"
  /\ b.b \in {"ok", "fail"}
  /\ LET s2 == ReaddirSettled(Locals, "ok", b.list)
     IN \E s \in (IF b.b = "fail"
                    THEN ReaddirPromiseCatch(fss, call,
                           ReaddirSettled(Locals, "backend", <<>>), "backend")
                    ELSE ReaddirPromiseLoop(fss, call,
                           [s2 EXCEPT !.result = Merge(result, b.list, i, call.withFileTypes),
                                      !.i = i - 1])) :
          SetLocals(s)
  /\ UNCHANGED <<fss, call, ReadStream, WriteStream, calls>>

----------------------------------------------------------------------------
\* createReadStream and createWriteStream.  Both walk this.fss with for-of,
\* from the first registered entry upwards, and keep no chain: lastError is
\* overwritten by each failure.

\* The constructors the union starts with (stripBoundVolumeArg of those of fs).
DefaultStream == 0

StreamCall(d) ==
  [NoCall EXCEPT !.op = "createStream", !.form = "sync", !.dir = d]

\* What a backend does when a stream is asked of it: whether it has
\* existsSync and what that says of the path, and what its stream
\* constructor does (absent, throws, returns nothing, returns a stream).
\* existsSync itself answers; like the one of Node it does not throw.
StreamBehaviours(d) ==
  [exists : IF d = "read" THEN {"none", "yes", "no"} ELSE {"none"},
   create : {"missing", "throw", "nostream", "ok"}]

\* The body of the try block for one entry.
StreamAttempt(b) ==
  IF b.create = "missing" THEN [res |-> "unsupported", invoked |-> FALSE]
  ELSE IF b.exists = "no" THEN [res |-> "absent", invoked |-> FALSE]
  ELSE IF b.create = "throw" THEN [res |-> "backend", invoked |-> TRUE]
  ELSE IF b.create = "nostream" THEN [res |-> "nostream", invoked |-> TRUE]
  ELSE [res |-> "ok", invoked |-> TRUE]

\* A slip: the constructor is taken over from a backend before its stream is known.
StreamBindingEarly(bound, e, res) == e.fs

\* this.ReadStream = fs.ReadStream / this.WriteStream = fs.WriteStream,
\* reached only past the last throw of the try block.
StreamBinding(bound, e, res) == IF res = "ok" THEN e.fs ELSE bound

\* The for-of loop; `bound` is the constructor the union exposes for the
\* direction of the call.
RECURSIVE CreateStreamLoop(_, _, _, _)
CreateStreamLoop(f, c, s, bound) ==
  IF s.i >= Len(f)
    THEN {[s |-> Deliver(s, "throw", Undef, s.lastError), bound |-> bound]}
  ELSE
    LET e == f[s.i + 1]
    IN IF ~Allowed(e, c.dir) THEN CreateStreamLoop(f, c, [s EXCEPT !.i = s.i + 1], bound)
       ELSE UNION {
         LET a == StreamAttempt(b)
             s1 == Logged(s, s.i, a.res, a.invoked, a.res # "ok")
             s2 == NewErr(s1, a.res, s.i)
             bound1 == StreamBinding(bound, e, a.res)
         IN IF a.res = "ok"
              THEN {[s |-> Deliver(s1, "return", e.fs, Null), bound |-> bound1]}
            ELSE CreateStreamLoop(f, c, [s2 EXCEPT !.lastError = Len(s2.errs), !.i = s.i + 1],
                                  bound1)
         : b \in StreamBehaviours(c.dir) }

CreateReadStream ==
  /\ pc = "idle"
  /\ call' = StreamCall("read")
  /\ \E o \in CreateStreamLoop(fss, call', FreshLocals, ReadStream) :
       SetLocals(o.s) /\ ReadStream' = o.bound
  /\ UNCHANGED <<fss, WriteStream, calls>>

CreateWriteStream ==
  /\ pc = "idle"
  /\ call' = StreamCall("write")
  /\ \E o \in CreateStreamLoop(fss, call', FreshLocals, WriteStream) :
       SetLocals(o.s) /\ WriteStream' = o.bound
  /\ UNCHANGED <<fss, ReadStream, calls>>

\* The stream call has returned or thrown and its caller goes on to the next
\* call: the locals of the call are gone, the union keeps its two constructors.
StreamReturn ==
  /\ pc = "done" /\ call.op = "createStream"
  /\ call' = NoCall
  /\ SetLocals(FreshLocals)
  /\ UNCHANGED <<fss, ReadStream, WriteStream, calls>>

----------------------------------------------------------------------------
\* watch, createFSProxy, watchFile, unwatchFile and existsSync.  All walk
\* this.fss with for-of, from the first registered entry upwards.

ScanCall(op) == [NoCall EXCEPT !.op = op, !.form = "sync", !.dir = "read"]

\* What a backend does when asked to start a watch: return a watcher, throw,
\* or lack the method (the call of undefined throws a TypeError).
WatchBehaviours == {"ok", "throw", "missing"}

\* A slip: the readable flag is not looked at.
WatchableAll(e) == TRUE

\* if (readable === false) continue;
Watchable(e) == e.readable # FALSE

\* The composite handle: a Proxy closed over the watchers collected.
CreateFSProxy(watchers) == [watchers |-> watchers]

\* The loop of watch (start = TRUE collects the watchers) and of watchFile.
RECURSIVE WatchLoop(_, _, _, _)
WatchLoop(f, s, watchers, collect) ==
  IF s.i >= Len(f)
    THEN {Deliver(s, "return", IF collect THEN CreateFSProxy(watchers) ELSE Undef, Null)}
  ELSE
    LET e == f[s.i + 1]
    IN IF ~Watchable(e) THEN WatchLoop(f, [s EXCEPT !.i = s.i + 1], watchers, collect)
       ELSE UNION {
         LET res == IF b = "missing" THEN "unsupported" ELSE Delegate(b)
             s1 == Logged(s, s.i, res, b # "missing", res # "ok")
         IN WatchLoop(f, [s1 EXCEPT !.i = s.i + 1],
                      IF res = "ok" THEN Append(watchers, e.fs) ELSE watchers, collect)
         : b \in WatchBehaviours }

Watch ==
  /\ pc = "idle"
  /\ call' = ScanCall("watch")
  /\ \E s \in WatchLoop(fss, FreshLocals, <<>>, TRUE) : SetLocals(s)
  /\ UNCHANGED <<fss, ReadStream, WriteStream, calls>>

WatchFile ==
  /\ pc = "idle"
  /\ call' = ScanCall("watchFile")
  /\ \E s \in WatchLoop(fss, FreshLocals, <<>>, FALSE) : SetLocals(s)
  /\ UNCHANGED <<fss, ReadStream, WriteStream, calls>>

\* unwatchFile: throw new Error('unwatchFile is not supported, ...')
UnwatchFile ==
  /\ pc = "idle"
  /\ call' = ScanCall("unwatchFile")
  /\ LET s1 == NewErr(FreshLocals, "unsupported", Undef)
     IN SetLocals(Deliver(s1, "throw", Undef, Len(s1.errs)))
  /\ UNCHANGED <<fss, ReadStream, WriteStream, calls>>

\* The properties read from the composite handle: a method every FSWatcher
\* has, and a name no watcher has.
Properties == {"close", "nothing"}

\* typeof watcher[property] === 'function'
IsFunction(w, property) == property = "close"

Args == {<<>>, <<"a">>}

\* The composite handle itself, as the receiver of a call.
Composite == 0

\* The get trap of the proxy: the watchers whose property is a function; or,
\* when there is none, the property of the last watcher looked at, which is
\* undefined when there is no watcher at all.
ProxyGet(proxy, property) ==
  LET funcCallers == SelectSeq(proxy.watchers, LAMBDA w : IsFunction(w, property))
  IN [funcCallers |-> funcCallers, prop |-> Undef]

\* composite[property](...args): the trap, then the call of what it returned.
\* Calling undefined throws a TypeError.
ProxyInvoke(property, args) ==
  /\ pc = "done" /\ call.op = "watch"
  /\ LET g == ProxyGet(delivered[1].val, property)
         invocation == [on |-> Composite, property |-> property, args |-> args]
         s1 == NewErr(Locals, "typeerror", Undef)
     IN IF g.funcCallers # <<>>
          THEN /\ calls' = <<invocation>> \o
                           [k \in 1..Len(g.funcCallers) |->
                              [on |-> g.funcCallers[k], property |-> property, args |-> args]]
               /\ delivered' = Append(delivered, [how |-> "return", val |-> Undef, err |-> Null])
               /\ errs' = errs
          ELSE /\ calls' = <<invocation>>
               /\ delivered' = Append(delivered, [how |-> "throw", val |-> Undef,
                                                   err |-> Len(s1.errs)])
               /\ errs' = s1.errs
  /\ pc' = "called"
  /\ UNCHANGED <<fss, call, i, lastError, log, result, error, ReadStream, WriteStream>>

\* What a backend says of the path, or that its check throws.
ExistsBehaviours == {"yes", "no", "throw"}

\* A slip: a check that throws ends the scan.
ExistsCaughtStops(b) == b = "throw"

\* catch (e) { }: nothing ends the scan but a backend that has the path.
ExistsCaught(b) == FALSE

RECURSIVE ExistsSyncLoop(_, _)
ExistsSyncLoop(f, s) ==
  IF s.i >= Len(f) THEN {Deliver(s, "return", FALSE, Null)}
  ELSE
    LET e == f[s.i + 1]
    IN IF e.readable = FALSE THEN ExistsSyncLoop(f, [s EXCEPT !.i = s.i + 1])
       ELSE UNION {
         LET s1 == Logged(s, s.i, b, TRUE, b = "throw")
         IN IF b = "yes" THEN {Deliver(s1, "return", TRUE, Null)}
            ELSE IF ExistsCaught(b) THEN {Deliver(s1, "return", FALSE, Null)}
            ELSE ExistsSyncLoop(f, [s1 EXCEPT !.i = s.i + 1])
         : b \in ExistsBehaviours }

ExistsSync ==
  /\ pc = "idle"
  /\ call' = ScanCall("existsSync")
  /\ \E s \in ExistsSyncLoop(fss, FreshLocals) : SetLocals(s)
  /\ UNCHANGED <<fss, ReadStream, WriteStream, calls>>

----------------------------------------------------------------------------
Init ==
  /\ fss = <<>>
  /\ call = NoCall
  /\ pc = "idle"
  /\ i = 0
  /\ lastError = Null
  /\ errs = <<>>
  /\ log = <<>>
  /\ delivered = <<>>
  /\ result = <<>>
  /\ error = Undef
  /\ ReadStream = DefaultStream
  /\ WriteStream = DefaultStream
  /\ calls = <<>>

Next ==
  \/ \E r \in BOOLEAN, w \in BOOLEAN : Use(r, w)
  \/ \E d \in Directions : SyncMethodCall(d)
  \/ \E d \in Directions, cb \in BOOLEAN : AsyncMethodCall(d, cb)
  \/ \E o \in {"ok", "fail"} : AsyncCallback(o)
  \/ \E d \in Directions : PromiseMethodCall(d)
  \/ \E o \in {"ok", "fail"} : PromiseSettle(o)
  \/ \E given \in BOOLEAN, flags \in Modes, cb \in BOOLEAN : Open(given, flags, cb)
  \/ \E o \in {"ok", "fail"} : OpenCallback(o)
  \/ \E flags \in Modes : OpenSync(flags)

Spec == Init /\ [][Next]_vars

\* The directory listing, on registries that differ in their readable flags.
NextReaddir ==
  \/ \E r \in BOOLEAN : Use(r, TRUE)
  \/ \E wft \in BOOLEAN : ReaddirSync(wft)
  \/ \E wft \in BOOLEAN, cb \in BOOLEAN : Readdir(wft, cb)
  \/ \E b \in ReaddirBehaviours : ReaddirCallback(b)
  \/ \E wft \in BOOLEAN : ReaddirPromise(wft)
  \/ \E b \in ReaddirBehaviours : ReaddirPromiseSettle(b)

SpecReaddir == Init /\ [][NextReaddir]_vars

\* The stream factory, on registries of every combination of flags.
NextStream ==
  \/ \E r \in BOOLEAN, w \in BOOLEAN : Use(r, w)
  \/ CreateReadStream
  \/ CreateWriteStream
  \/ StreamReturn

SpecStream == Init /\ [][NextStream]_vars

\* The watches and the existence check, on registries that differ in their
\* readable flags.
NextWatch ==
  \/ \E r \in BOOLEAN : Use(r, TRUE)
  \/ Watch
  \/ \E property \in Properties, args \in Args : ProxyInvoke(property, args)
  \/ WatchFile
  \/ UnwatchFile
  \/ ExistsSync

SpecWatch == Init /\ [][NextWatch]_vars

\* The operations that visit every backend: the listing and the watches.
NextAggregate ==
  \/ \E r \in BOOLEAN : Use(r, TRUE)
  \/ \E wft \in BOOLEAN : ReaddirSync(wft)
  \/ \E wft \in BOOLEAN, cb \in BOOLEAN : Readdir(wft, cb)
  \/ \E b \in ReaddirBehaviours : ReaddirCallback(b)
  \/ \E wft \in BOOLEAN : ReaddirPromise(wft)
  \/ \E b \in ReaddirBehaviours : ReaddirPromiseSettle(b)
  \/ Watch
  \/ \E property \in Properties, args \in Args : ProxyInvoke(property, args)
  \/ WatchFile

SpecAggregate == Init /\ [][NextAggregate]_vars

\* Every operation of the class, on registries of every combination of flags.
NextAll ==
  \/ \E r \in BOOLEAN, w \in BOOLEAN : Use(r, w)
  \/ \E d \in Directions : SyncMethodCall(d)
  \/ \E d \in Directions, cb \in BOOLEAN : AsyncMethodCall(d, cb)
  \/ \E o \in {"ok", "fail"} : AsyncCallback(o)
  \/ \E d \in Directions : PromiseMethodCall(d)
  \/ \E o \in {"ok", "fail"} : PromiseSettle(o)
  \/ \E given \in BOOLEAN, flags \in Modes, cb \in BOOLEAN : Open(given, flags, cb)
  \/ \E o \in {"ok", "fail"} : OpenCallback(o)
  \/ \E flags \in Modes : OpenSync(flags)
  \/ \E wft \in BOOLEAN : ReaddirSync(wft)
  \/ \E wft \in BOOLEAN, cb \in BOOLEAN : Readdir(wft, cb)
  \/ \E b \in ReaddirBehaviours : ReaddirCallback(b)
  \/ \E wft \in BOOLEAN : ReaddirPromise(wft)
  \/ \E b \in ReaddirBehaviours : ReaddirPromiseSettle(b)
  \/ CreateReadStream
  \/ CreateWriteStream
  \/ Watch
  \/ \E property \in Properties, args \in Args : ProxyInvoke(property, args)
  \/ WatchFile
  \/ UnwatchFile
  \/ ExistsSync

SpecAll == Init /\ [][NextAll]_vars

----------------------------------------------------------------------------
\* Vocabulary of the properties

\* The errors reached from e through prev, e first.  A chain cannot be longer
\* than the heap unless it runs in a circle, which the extra step shows.
RECURSIVE ChainFrom(_, _, _)
ChainFrom(heap, e, fuel) ==
  IF e \in {Null, Undef} \/ fuel = 0 THEN <<>>
  ELSE <<e>> \o ChainFrom(heap, heap[e].prev, fuel - 1)

ChainOf(s, e) == ChainFrom(s.errs, e, Len(s.errs) + 1)

\* What a chain says: the kind and the origin of each failure, in order.
ChainContent(s, e) ==
  LET c == ChainOf(s, e)
  IN [k \in 1..Len(c) |-> [kind |-> s.errs[c[k]].kind, by |-> s.errs[c[k]].by]]

\* The outcome of a finished call, leaving out how it was delivered.
Outcome(s) ==
  IF s.delivered = <<>> THEN [val |-> Undef, failed |-> FALSE, chain |-> <<>>]
  ELSE [val |-> s.delivered[1].val,
        failed |-> s.delivered[1].err \notin {Null, Undef},
        chain |-> ChainContent(s, s.delivered[1].err)]

OkHow(form) ==
  IF form = "sync" THEN "return" ELSE IF form = "callback" THEN "cb" ELSE "resolve"

FailHow(form) ==
  IF form = "sync" THEN "throw" ELSE IF form = "callback" THEN "cb" ELSE "reject"

\* The call has ended and its caller is told (a callback form without a
\* callback tells nobody).
Finished == pc = "done" /\ (call.form = "callback" => call.cb)

Succeeded == Len(log) >= 1 /\ log[Len(log)].res = "ok"

AllFailed == \A k \in 1..Len(log) : log[k].res \notin {"ok", "pending"}

\* The caller received one failure, the error object e.
FailedWith(e) ==
  /\ Len(delivered) = 1
  /\ delivered[1].how = FailHow(call.form)
  /\ delivered[1].err = e
  /\ e \in 1..Len(errs)

----------------------------------------------------------------------------
C2_NoBackendsAttached ==
  /\ (call.op \in {"generic", "open"} /\ Len(fss) = 0 /\ Finished) =>
       /\ FailedWith(delivered[1].err)
       /\ errs[delivered[1].err].kind = "nofs"
  /\ (call.op \in {"generic", "open"} /\ Len(fss) >= 1 /\ Finished
        /\ Len(delivered) = 1 /\ delivered[1].err \in 1..Len(errs)) =>
       errs[delivered[1].err].kind # "nofs"

\* C3: when every attempt of a generic call on N >= 1 entries fails, the
\* caller gets the failure of the first registered entry, and following prev
\* from it passes the failures of entries 0, 1, ..., N - 1 in that order, N
\* distinct nodes, the last of which has prev = null.
C3_ErrorChain ==
  (call.op = "generic" /\ Len(fss) >= 1 /\ Finished /\ AllFailed) =>
    /\ FailedWith(lastError)
    /\ LET c == ChainOf(Locals, lastError)
       IN /\ Len(c) = Len(fss)
          /\ \A k \in 1..Len(c) : errs[c[k]].by = k - 1
          /\ \A k \in 1..Len(c) : errs[c[k]].kind = log[Len(log) + 1 - k].res
          /\ \A k, m \in 1..Len(c) : c[k] = c[m] => k = m
          /\ errs[c[Len(c)]].prev = Null

C3_Witness ==
  /\ call.op = "generic" /\ call.form = "promise"
  /\ pc = "done" /\ Len(fss) = 3 /\ AllFailed
  /\ Len(delivered) = 1 /\ delivered[1].how = "reject"
  /\ Len(ChainOf(Locals, delivered[1].err)) = 3

\* Two runs agree on the backends they both reached.
SameAttempts(l1, l2) ==
  \A k \in 1..Len(l1), m \in 1..Len(l2) : l1[k].fs = l2[m].fs => l1[k].res = l2[m].res

\* C4: a finished callback or promise call has the outcome (the result and
\* the backend it came from, or the failure and the content of its chain)
\* that the blocking form has on the same registry whenever the backends do
\* the same in both.
C4_FormsAgree ==
  (call.op = "generic" /\ call.form \in {"callback", "promise"} /\ Finished) =>
    \A s \in SyncMethod(fss, call.dir) :
      SameAttempts(s.log, log) => Outcome(s) = Outcome(Locals)

\* C5: a callback-form call (generic or open) that was given a callback calls
\* it exactly once: with the result of the first backend that succeeds, or,
\* when none does, with the terminal failure; never before the call has ended
\* and never twice.
C5_CallbackExactlyOnce ==
  (call.op \in {"generic", "open"} /\ call.form = "callback" /\ call.cb) =>
    /\ pc # "done" => delivered = <<>>
    /\ pc = "done" =>
         /\ Len(delivered) = 1
         /\ delivered[1].how = "cb"
         /\ Succeeded =>
              /\ delivered[1].err = Null
              /\ delivered[1].val = fss[log[Len(log)].fs + 1].fs
         /\ ~Succeeded =>
              /\ delivered[1].err \in 1..Len(errs)
              /\ Len(log) >= 1 =>
                   /\ delivered[1].err = lastError
                   /\ errs[lastError].by = log[Len(log)].fs

\* The part of C5 that holds of the code: the callback is called once, at the end.
C5_CalledOnce ==
  (call.op \in {"generic", "open"} /\ call.form = "callback" /\ call.cb) =>
    Len(delivered) = (IF pc = "done" THEN 1 ELSE 0)

\* An entry meets the requirement of an access mode: r needs readable, w needs
\* writable, a needs both.
Eligible(e, flags) ==
  /\ flags[1] = "r" => e.readable
  /\ flags[1] = "w" => e.writable
  /\ flags[1] = "a" => (e.readable /\ e.writable)

\* The eligible entries from index top downwards.
RECURSIVE EligibleFrom(_, _, _)
EligibleFrom(f, flags, top) ==
  IF top < 0 THEN <<>>
  ELSE (IF Eligible(f[top + 1], flags) THEN <<top>> ELSE <<>>)
       \o EligibleFrom(f, flags, top - 1)

\* C6: open and openSync never call the open of an entry that does not meet
\* the access mode and no error of such an entry exists; the entries that
\* meet it are called in descending order, none of them passed over.
C6_ModeFilter ==
  call.op = "open" =>
    LET el == EligibleFrom(fss, call.flags, Len(fss) - 1)
    IN /\ \A k \in 1..Len(log) : Eligible(fss[log[k].fs + 1], call.flags)
       /\ \A n \in 1..Len(errs) :
            errs[n].by # Undef => Eligible(fss[errs[n].by + 1], call.flags)
       /\ Len(log) <= Len(el)
       /\ \A k \in 1..Len(log) : log[k].fs = el[k]
       /\ (pc = "done" /\ ~Succeeded) => Len(log) = Len(el)

C6_Witness ==
  /\ call.op = "open" /\ call.flags = <<"a">> /\ pc = "done"
  /\ Len(fss) = 3
  /\ fss[3].readable /\ fss[3].writable
  /\ ~fss[2].readable
  /\ fss[1].readable /\ fss[1].writable
  /\ Len(log) = 2 /\ log[1].fs = 2 /\ log[2].fs = 0

\* C7: on a non-empty registry, when no entry both meets the mode and opens,
\* open passes a failure to its callback and openSync raises one: the failure
\* of the lowest eligible entry with the earlier failures chained behind it,
\* or a plain failure when no entry was eligible.
C7_OpenFails ==
  (call.op = "open" /\ Len(fss) >= 1 /\ Finished /\ ~Succeeded) =>
    /\ FailedWith(delivered[1].err)
    /\ Len(log) >= 1 =>
         /\ delivered[1].err = lastError
         /\ errs[lastError].by = log[Len(log)].fs
         /\ Len(ChainOf(Locals, lastError)) = Len(log)

----------------------------------------------------------------------------
\* The directory listing

Range(seq) == {seq[k] : k \in 1..Len(seq)}

\* The adapter calls whose listing succeeded, and the names they reported.
Contributors == {k \in 1..Len(log) : log[k].res = "ok"}

Reported == UNION {Range(log[k].list) : k \in Contributors}

\* The listing call has ended by handing an array to its caller.
ListingOk ==
  /\ call.op = "readdir" /\ pc = "done"
  /\ Len(delivered) = 1
  /\ delivered[1].how = OkHow(call.form)
  /\ delivered[1].err = Null

\* C8: a listing that succeeds returns exactly the names reported by the
\* readable backends whose listing succeeded, each name once, in ascending
\* order of the names.
C8_MergedSortedUnique ==
  ListingOk =>
    LET a == delivered[1].val
    IN /\ {a[k].name : k \in 1..Len(a)} = Reported
       /\ \A k, m \in 1..Len(a) : a[k].name = a[m].name => k = m
       /\ \A k \in 1..(Len(a) - 1) : StrLess(a[k].name, a[k + 1].name)
       /\ \A k \in Contributors : fss[log[k].fs + 1].readable

C8_Witness ==
  /\ ListingOk /\ call.form = "sync" /\ Len(fss) = 2
  /\ Len(log) = 2
  /\ log[1].fs = 1 /\ log[1].res = "ok" /\ log[1].list = <<NameB, NameAB>>
  /\ log[2].fs = 0 /\ log[2].res = "ok" /\ log[2].list = <<NameAB, NameA>>
  /\ [k \in 1..Len(delivered[1].val) |-> delivered[1].val[k].name] = <<NameA, NameAB, NameB>>

\* The backends (by index) whose successful listing holds the name n.
Reporters(n) == {log[k].fs : k \in {m \in Contributors : n \in Range(log[m].list)}}

Lowest(S) == CHOOSE x \in S : \A y \in S : x <= y

\* C9: the entry returned for a name is the one reported by the lowest (the
\* earliest registered) of the backends that reported it, in every form.
C9_LowestPriorityEntryWins ==
  ListingOk =>
    LET a == delivered[1].val
    IN \A k \in 1..Len(a) :
         /\ Reporters(a[k].name) # {}
         /\ a[k] = ReaddirEntry(a[k].name, Lowest(Reporters(a[k].name)), call.withFileTypes)

C9_Witness ==
  /\ ListingOk /\ call.form = "callback" /\ call.withFileTypes
  /\ Len(fss) = 3
  /\ Reporters(NameAB) = {0, 2}
  /\ \E k \in 1..Len(delivered[1].val) :
       delivered[1].val[k] = [kind |-> "dirent", name |-> NameAB, owner |-> 0]

\* Some backend has put at least one entry into the result.
Contributed == \E k \in Contributors : log[k].list # <<>>

\* C10: once a backend has contributed an entry, nothing that happens on a
\* lower entry makes the listing fail: the call ends with the merged listing;
\* a failure reaches the caller only when nothing was contributed.
C10_PartialResultMasksFailures ==
  (call.op = "readdir" /\ Finished) =>
    /\ Contributed => ListingOk
    /\ (Len(delivered) = 1 /\ delivered[1].err \notin {Null, Undef}) => ~Contributed

\* Two listing runs agree on the backends they both reached: the same
\* outcome and the same names.
SameListings(l1, l2) ==
  \A k \in 1..Len(l1), m \in 1..Len(l2) :
    l1[k].fs = l2[m].fs => (l1[k].res = l2[m].res /\ l1[k].list = l2[m].list)

\* Whether a listing call failed, and the array it handed over.
ListingOutcome(s) ==
  LET failed == s.delivered[1].err \notin {Null, Undef}
  IN [failed |-> failed, val |-> IF failed THEN <<>> ELSE s.delivered[1].val]

\* C11: on the same registry (flags included, the empty registry included)
\* and with the same listing outcome of every backend, a finished callback or
\* promise readdir fails exactly when readdirSync fails and otherwise hands
\* over the same merged listing.
C11_ReaddirFormsAgree ==
  (call.op = "readdir" /\ call.form \in {"callback", "promise"} /\ Finished) =>
    \A s \in ReaddirSyncLoop(fss, call, [FreshLocals EXCEPT !.i = Len(fss) - 1]) :
      SameListings(s.log, log) => ListingOutcome(s) = ListingOutcome(Locals)

\* The part of C11 that holds of the code: the promise form agrees with
\* readdirSync everywhere.
C11_PromiseAgreesWithSync ==
  (call.op = "readdir" /\ call.form = "promise" /\ Finished) =>
    \A s \in ReaddirSyncLoop(fss, call, [FreshLocals EXCEPT !.i = Len(fss) - 1]) :
      SameListings(s.log, log) => ListingOutcome(s) = ListingOutcome(Locals)

\* The readable entries, by index.
Readable == {j \in 0..(Len(fss) - 1) : fss[j + 1].readable}

\* Every readable entry was asked for its listing and failed.
AllReadableFailed ==
  /\ Readable # {}
  /\ \A j \in Readable :
       \E k \in 1..Len(log) : log[k].fs = j /\ log[k].res \in {"backend", "unsupported"}

\* C18: when there is a readable entry and the listing of every readable
\* entry fails, the call fails in its own way (throw, rejection, callback
\* error) with the failure of the last readable entry visited, the earlier
\* failures of the readable entries behind it through prev, wherever the
\* entries that are not readable sit; it never hands over a listing.
C18_AllReadableFail ==
  (call.op = "readdir" /\ Finished /\ AllReadableFailed) =>
    /\ Len(delivered) = 1
    /\ FailedWith(delivered[1].err)
    /\ LET c == ChainContent(Locals, delivered[1].err)
       IN /\ c[1].by = Lowest(Readable)
          /\ Len(c) = Cardinality(Readable)
          /\ \A k \in 1..Len(c) : c[k].by \in Readable
          /\ \A k \in 1..(Len(c) - 1) : c[k].by < c[k + 1].by

\* The part of C18 that holds of the code: the claim, for registries whose
\* first registered entry is readable and backends that do not throw where
\* the callback form calls them.
C18_LowestEntryReadable ==
  (call.op = "readdir" /\ Finished /\ AllReadableFailed /\ Len(fss) >= 1 /\ fss[1].readable
     /\ (call.form = "callback" => \A k \in 1..Len(log) : fss[log[k].fs + 1].readable)) =>
    /\ Len(delivered) = 1
    /\ (delivered[1].how = FailHow(call.form) \/ delivered[1].how = "throw")
    /\ delivered[1].err \in 1..Len(errs)
    /\ errs[delivered[1].err].by = 0

----------------------------------------------------------------------------
\* Capability gating

\* The attempt log[k] of a generic call was made on an entry whose flag for
\* the direction of the call is off.
Gated(k) == ~Allowed(fss[log[k].fs + 1], call.dir)

\* The attempt log[k] left an error of the given kind, which is in the chain
\* of the failure the caller gets when every attempt has failed.
Recorded(k, kind) ==
  \E n \in 1..Len(errs) :
    /\ errs[n].by = log[k].fs /\ errs[n].kind = kind
    /\ (Finished /\ AllFailed) => n \in Range(ChainOf(Locals, delivered[1].err))

\* After the failed attempt log[k] the dispatcher goes on with the entry below.
FallsThrough(k) ==
  /\ log[k].fs > 0 => (k < Len(log) /\ log[k + 1].fs = log[k].fs - 1)
  /\ log[k].fs = 0 => (k = Len(log) /\ pc = "done")

\* C17: in every form of a generic call the backend of an entry whose flag
\* for the direction of the call is off is never invoked; the attempt fails
\* with the capability-denied failure, which is recorded in the chain like
\* any other failure, and the dispatcher goes on with the next lower entry;
\* an entry whose flag is on is delegated to unchanged.
C17_CapabilityGating ==
  call.op = "generic" =>
    \A k \in 1..Len(log) :
      /\ Gated(k) =>
           /\ ~log[k].invoked
           /\ log[k].res = "denied"
           /\ Recorded(k, "denied")
           /\ FallsThrough(k)
      /\ ~Gated(k) =>
           /\ log[k].res \in {"ok", "pending", "backend", "unsupported"}
           /\ log[k].invoked = (log[k].res # "unsupported")
           /\ (log[k].res = "ok" /\ Finished) =>
                delivered[1].val = fss[log[k].fs + 1].fs

\* The part of C17 that holds of the code: no gated backend is ever invoked,
\* its attempt fails and is recorded and passed over; in the blocking and the
\* callback form the failure is the capability-denied one.
C17_GatedNeverInvoked ==
  call.op = "generic" =>
    \A k \in 1..Len(log) :
      Gated(k) =>
        /\ ~log[k].invoked
        /\ log[k].res \in {"denied", "unsupported"}
        /\ call.form \in {"sync", "callback"} => log[k].res = "denied"
        /\ Recorded(k, log[k].res)
        /\ FallsThrough(k)

----------------------------------------------------------------------------
\* The stream factory

\* The entries (by index) a stream call of the direction of the call may use.
StreamEligible == {j \in 0..(Len(fss) - 1) : Allowed(fss[j + 1], call.dir)}

Highest(S) == CHOOSE x \in S : \A y \in S : x >= y

\* The stream call has ended by returning the stream of the entry tried last.
StreamServed ==
  /\ call.op = "createStream" /\ pc = "done"
  /\ Len(delivered) = 1 /\ delivered[1].how = "return"
  /\ Succeeded
  /\ delivered[1].val = fss[log[Len(log)].fs + 1].fs

\* What holds of a stream call whatever the order of the walk: only eligible
\* entries are tried, each at most once, one after the failure of the other;
\* an entry that says the path does not exist or that has no constructor is
\* not asked for a stream; a call that returns returns the stream of the
\* entry tried last, which gave one.
StreamAttemptsSound ==
  /\ \A k \in 1..Len(log) :
       /\ log[k].fs \in StreamEligible
       /\ log[k].res \in {"absent", "unsupported"} => ~log[k].invoked
       /\ log[k].res = "ok" => log[k].invoked
       /\ \A m \in 1..Len(log) : log[k].fs = log[m].fs => k = m
  /\ \A k \in 1..(Len(log) - 1) : log[k].res # "ok"
  /\ (pc = "done" /\ delivered[1].how = "return") => StreamServed

\* C12: a stream call tries the eligible entries (readable for a read
\* stream, writable for a write stream) from the most recently registered
\* downwards and returns the stream of the first that passes its existence
\* check and gives a stream: the entries above the one that served were all
\* tried and failed, and no constructor below it is called.
C12_StreamPriorityOrder ==
  call.op = "createStream" =>
    /\ StreamAttemptsSound
    /\ Len(log) >= 1 => log[1].fs = Highest(StreamEligible)
    /\ \A k \in 1..(Len(log) - 1) :
         /\ log[k + 1].fs < log[k].fs
         /\ \A j \in StreamEligible : ~(log[k + 1].fs < j /\ j < log[k].fs)
    /\ pc = "done" =>
         \A j \in StreamEligible :
           (\E k \in 1..Len(log) : log[k].fs = j) <=>
             (StreamServed => j >= log[Len(log)].fs)

\* What the code does instead: the same walk from the first registered
\* entry upwards.
C12_RegistrationOrder ==
  call.op = "createStream" =>
    /\ StreamAttemptsSound
    /\ Len(log) >= 1 => log[1].fs = Lowest(StreamEligible)
    /\ \A k \in 1..(Len(log) - 1) :
         /\ log[k + 1].fs > log[k].fs
         /\ \A j \in StreamEligible : ~(log[k].fs < j /\ j < log[k + 1].fs)
    /\ pc = "done" =>
         \A j \in StreamEligible :
           (\E k \in 1..Len(log) : log[k].fs = j) <=>
             (StreamServed => j <= log[Len(log)].fs)

\* The step is a stream call of direction d.
StreamStep(d) == pc = "idle" /\ call'.op = "createStream" /\ call'.dir = d

\* The backend whose stream the call of this step returns.
ServerOfStep == fss[log'[Len(log')].fs + 1].fs

\* C13: a stream call that returns a stream sets the constructor of its own
\* direction to that of the backend that gave the stream and leaves the
\* other one alone; a stream call that fails, whatever backends it tried,
\* leaves both alone, and so does every other step.  Hence after any sequence
\* of stream calls each constructor is that of the backend that served the
\* last successful call of its direction, or the initial one.
C13_StreamBinding ==
  [][ /\ StreamStep("read") =>
           /\ WriteStream' = WriteStream
           /\ ReadStream' = IF delivered'[1].how = "return" THEN ServerOfStep ELSE ReadStream
      /\ StreamStep("write") =>
           /\ ReadStream' = ReadStream
           /\ WriteStream' = IF delivered'[1].how = "return" THEN ServerOfStep ELSE WriteStream
      /\ ~(StreamStep("read") \/ StreamStep("write")) =>
           (ReadStream' = ReadStream /\ WriteStream' = WriteStream)
    ]_vars

\* A read stream given by the second entry after the first one failed, the
\* write constructor still that of the first entry from an earlier call.
C13_Witness ==
  /\ StreamServed /\ call.dir = "read"
  /\ Len(log) = 2 /\ log[1].invoked
  /\ ReadStream = fss[log[2].fs + 1].fs
  /\ WriteStream = fss[1].fs
  /\ ReadStream # WriteStream

----------------------------------------------------------------------------
\* The watches and the existence check

\* The entries the call has tried, by index.
Tried == {log[k].fs : k \in 1..Len(log)}

\* The watchers of the backends whose watch started.
Started == {fss[log[k].fs + 1].fs : k \in {m \in 1..Len(log) : log[m].res = "ok"}}

\* The calls a watcher of a backend has received.
CallsOn(h) == {k \in 1..Len(calls) : calls[k].on = h}

\* watch has returned its composite handle.
WatchReturned ==
  /\ call.op = "watch" /\ pc \in {"done", "called"}
  /\ Len(delivered) >= 1 /\ delivered[1].how = "return" /\ delivered[1].err = Null

\* A method has been called on the composite handle.
MethodCalled ==
  /\ call.op = "watch" /\ pc = "called"
  /\ IsFunction(Composite, calls[1].property)

\* C14: watch never throws, whichever backends throw; it asks a watch of
\* every entry that is not readable:false, once, and of no other entry; the
\* one handle it returns holds the watchers of the backends whose watch
\* started, and a method called on it is called once, with the same
\* arguments, on each of these watchers and on nothing else.
C14_WatchFanOut ==
  (call.op = "watch" /\ pc \in {"done", "called"}) =>
    /\ WatchReturned
    /\ Tried = Readable
    /\ \A k, m \in 1..Len(log) : log[k].fs = log[m].fs => k = m
    /\ Range(delivered[1].val.watchers) = Started
    /\ (MethodCalled /\ Started # {}) =>
         /\ \A h \in Started :
              /\ Cardinality(CallsOn(h)) = 1
              /\ \A k \in CallsOn(h) :
                   calls[k].property = calls[1].property /\ calls[k].args = calls[1].args
         /\ \A k \in 2..Len(calls) : calls[k].on \in Started

\* Three readable backends, the watch of the second throws: the other two
\* watchers get the call, with its argument.
C14_Witness ==
  /\ MethodCalled /\ Len(fss) = 3
  /\ Len(log) = 3 /\ log[2].res = "backend"
  /\ Started = {fss[1].fs, fss[3].fs}
  /\ Len(calls) = 3 /\ calls[1].args = <<"a">>
  /\ {calls[2].on, calls[3].on} = Started

\* C15: existsSync never throws; it returns true exactly when an entry that
\* is not readable:false says the path exists, and false otherwise (also on
\* the empty registry); a check that throws counts as "does not exist" and
\* the scan goes on; an entry that is readable:false is never asked.
C15_ExistsSync ==
  (call.op = "existsSync" /\ pc = "done") =>
    /\ Len(delivered) = 1
    /\ delivered[1].how = "return" /\ delivered[1].err = Null
    /\ delivered[1].val = (\E k \in 1..Len(log) : log[k].res = "yes")
    /\ Tried \subseteq Readable
    /\ delivered[1].val = FALSE => Tried = Readable
    /\ \A k \in 1..(Len(log) - 1) : log[k].res \in {"no", "throw"}

\* The check of the first entry throws, the second entry has the path.
C15_Witness ==
  /\ call.op = "existsSync" /\ pc = "done"
  /\ Len(fss) = 3 /\ ~fss[1].readable
  /\ Len(log) = 2 /\ log[1].res = "throw" /\ log[2].res = "yes"
  /\ delivered[1].val = TRUE

\* The entries tried come in descending order of their index.
Descending == \A k \in 1..(Len(log) - 1) : log[k].fs > log[k + 1].fs

\* C19: the operations that visit every backend visit the readable entries
\* from the most recently registered downwards: every form of readdir asks
\* them in that order, watch and watchFile start the watches in that order,
\* and the watchers in the composite handle are in that order.
C19_AggregateOrder ==
  /\ call.op = "readdir" => Descending
  /\ call.op \in {"watch", "watchFile"} => Descending
  /\ WatchReturned =>
       \A k \in 1..(Len(delivered[1].val.watchers) - 1) :
         delivered[1].val.watchers[k] > delivered[1].val.watchers[k + 1]

\* The part of C19 that holds of the code: the order of the listing.
C19_ReaddirOrder == call.op = "readdir" => Descending

\* What the code does for the watches: registration order.
C19_WatchRegistrationOrder ==
  /\ call.op \in {"watch", "watchFile"} =>
       \A k \in 1..(Len(log) - 1) : log[k].fs < log[k + 1].fs
  /\ WatchReturned =>
       \A k \in 1..(Len(delivered[1].val.watchers) - 1) :
         delivered[1].val.watchers[k] < delivered[1].val.watchers[k + 1]

\* C20: when no backend gave a watcher (empty registry, no readable entry,
\* every watch threw) watch still returns a composite handle, and a method
\* called on it reaches no watcher and ends without a failure.
C20_EmptyComposite ==
  /\ (call.op = "watch" /\ pc \in {"done", "called"} /\ Started = {}) =>
       (WatchReturned /\ delivered[1].val.watchers = <<>>)
  /\ (MethodCalled /\ Started = {}) =>
       /\ \A k \in 1..Len(calls) : calls[k].on = Composite
       /\ Len(delivered) = 2
       /\ delivered[2].how = "return" /\ delivered[2].err = Null

\* The part of C20 that holds of the code: the handle is returned and no
\* watcher is reached.
C20_HandleReturned ==
  /\ (call.op = "watch" /\ pc \in {"done", "called"} /\ Started = {}) =>
       (WatchReturned /\ delivered[1].val.watchers = <<>>)
  /\ (MethodCalled /\ Started = {}) => \A k \in 1..Len(calls) : calls[k].on = Composite

----------------------------------------------------------------------------
\* The registry

\* The step is a registration: no call is started, continued or ended by it.
UseStep ==
  /\ pc = "idle" /\ pc' = "idle"
  /\ call' = call /\ log' = log /\ delivered' = delivered /\ calls' = calls
  /\ ReadStream' = ReadStream /\ WriteStream' = WriteStream

====
